---------------------------- MODULE Spec2Model ----------------------------
(***************************************************************************)
(* A model of generate_kr1_report.py: one run of the script fetches the    *)
(* strategic language directory, ingests the Aquifer catalog and the DCS   *)
(* catalog into one flat table of resource records, builds the             *)
(* language x category x source matrix of the Excel report and replaces    *)
(* the rows of the table kr1_progress_data.                                *)
(*                                                                         *)
(* Data frames are sequences of records.  A missing string (Python None,   *)
(* a NaN in an object column) is the value None; a missing number (NaN in  *)
(* a numeric column) is the value NaN.  Percentages are integers counted   *)
(* in thousandths of a percent, which is what round(x, 3) leaves of them.  *)
(***************************************************************************)
EXTENDS Integers, Sequences, FiniteSets, TLC

(***************************************************************************)
(* Bounds of the model.                                                    *)
(***************************************************************************)
\* the strategic language directory holds at most MaxLangs languages
MaxLangs == 2
\* one run fetches at most MaxFetch catalog items (collections and repos)
MaxFetch == 3
\* the Status Priority Merger is applied to at most MaxStatuses records
MaxStatuses == 3

(***************************************************************************)
(* Missing values.                                                         *)
(***************************************************************************)
None == "<None>"
NaN == << >>

Num(n) == << n >>
Val(x) == x[1]
\* pd.isnull / pd.notnull on a numeric cell
isnull(x) == x = NaN
notnull(x) == x # NaN

\* an elementwise == of a column with a scalar: a missing value equals nothing
PdEq(cell, scalar) == cell # None /\ scalar # None /\ cell = scalar

Range(s) == { s[i] : i \in DOMAIN s }

RECURSIVE SeqSum(_)
SeqSum(s) == IF s = << >> THEN 0 ELSE Head(s) + SeqSum(Tail(s))

RECURSIVE Flatten(_)
\* pd.concat of a list of frames
Flatten(ss) == IF ss = << >> THEN << >> ELSE Head(ss) \o Flatten(Tail(ss))

(***************************************************************************)
(* The taxonomy tables.                                                    *)
(***************************************************************************)
all_sli_categories ==
    { "Bible Translation Aligned to Gk/Heb",
      "Exegetical Commentary",
      "Bible Translation Manual",
      "Gk/Heb Semantic Lexicons",
      "Gk/Heb Grammars",
      "Images, Maps, Videos",
      "Study Notes",
      "Translation Guide",
      "Comprehension Testing",
      "Bible Dictionary",
      "Bible Translation Source Text (audio preferred)",
      "Translation Glossary",
      "Foundational BT Training Videos",
      "Foundational Bible Stories" }

\* sorted(all_sli_categories): Python orders strings by code point
SortedCategoryOrder ==
    << "Bible Dictionary",
       "Bible Translation Aligned to Gk/Heb",
       "Bible Translation Manual",
       "Bible Translation Source Text (audio preferred)",
       "Comprehension Testing",
       "Exegetical Commentary",
       "Foundational BT Training Videos",
       "Foundational Bible Stories",
       "Gk/Heb Grammars",
       "Gk/Heb Semantic Lexicons",
       "Images, Maps, Videos",
       "Study Notes",
       "Translation Glossary",
       "Translation Guide" >>

\* sorted(sorted_slr_categories): the members of the set, in string order
sorted_slr_categories ==
    SelectSeq(SortedCategoryOrder, LAMBDA c : c \in all_sli_categories)

dcs_aquifer_code_map ==
    [ s \in { "Translation Academy", "Translation Words", "TSV Translation Notes",
              "TSV Translation Questions", "Open Bible Stories", "Aligned Bible",
              "Hebrew Old Testament", "Greek New Testament" } |->
        CASE s = "Translation Academy" -> "Bible Translation Manual"
          [] s = "Translation Words" -> "Translation Glossary"
          [] s = "TSV Translation Notes" -> "Translation Guide"
          [] s = "TSV Translation Questions" -> "Comprehension Testing"
          [] s = "Open Bible Stories" -> "Foundational Bible Stories"
          [] s = "Aligned Bible" -> "Bible Translation Aligned to Gk/Heb"
          [] s = "Hebrew Old Testament" -> "Bible Translation Source Text (audio preferred)"
          [] s = "Greek New Testament" -> "Bible Translation Source Text (audio preferred)" ]

(***************************************************************************)
(* Status of one record, and the merge of the statuses of a cell.          *)
(***************************************************************************)
\* get_status(pct), pct in thousandths of a percent; every comparison with NaN
\* is false
get_status_gt(pct) ==
    IF notnull(pct) /\ Val(pct) > 90000 THEN "Satisfied"
    ELSE IF notnull(pct) /\ Val(pct) > 0 THEN "In Progress"
    ELSE ""

get_status(pct) ==
    IF notnull(pct) /\ Val(pct) >= 90000 THEN "Satisfied"
    ELSE IF notnull(pct) /\ Val(pct) > 0 THEN "In Progress"
    ELSE ""

\* priority.get(status, 0)
priority(status) ==
    CASE status = "Satisfied" -> 3
      [] status = "In Progress" -> 2
      [] status = "Unknown" -> 1
      [] OTHER -> 0

RECURSIVE highest_after(_, _)
\* the loop of calculate_status_from_resources over the rows left, highest
\* being the pair (status, priority) found so far
highest_after(rows, highest) ==
    IF rows = << >> THEN highest
    ELSE LET status == Head(rows).resource_status
         IN  IF priority(status) > highest[2]
             THEN highest_after(Tail(rows), << status, priority(status) >>)
             ELSE highest_after(Tail(rows), highest)

RECURSIVE last_after(_, _)
\* the same loop comparing with >= : the last record wins a tie
last_after(rows, highest) ==
    IF rows = << >> THEN highest
    ELSE LET status == Head(rows).resource_status
         IN  IF priority(status) >= highest[2]
             THEN last_after(Tail(rows), << status, priority(status) >>)
             ELSE last_after(Tail(rows), highest)

calculate_status_last_wins(resources_df) == last_after(resources_df, << "", 0 >>)[1]

calculate_status_from_resources(resources_df) ==
    highest_after(resources_df, << "", 0 >>)[1]

\* round(n / d * 100, 3) for d > 0, in thousandths: the nearest thousandth
\* of 100 n / d, an exact half going to the even neighbour
round3_pct(n, d) ==
    LET q == (n * 100000) \div d
        r == (n * 100000) % d
    IN  IF 2 * r > d THEN q + 1
        ELSE IF 2 * r < d THEN q
        ELSE IF q % 2 = 0 THEN q ELSE q + 1


(***************************************************************************)
(* The inputs of a run: what the database and the two catalogs return.     *)
(***************************************************************************)
\* sli_language_data in the order of GET_STRATEGIC_RESOURCES_QUERY
\* (resource_level desc, language asc)
LanguagePool ==
    << [ name |-> "English - [en]", language_code_2 |-> "en", language_code_3 |-> "eng" ],
       [ name |-> "Spanish - [es]", language_code_2 |-> "es", language_code_3 |-> "spa" ],
       [ name |-> "French - [fr]", language_code_2 |-> "fr", language_code_3 |-> "fra" ] >>

\* the rows of the pool at the indices in S, in the pool's order
PoolRows(S) ==
    LET pick[i \in 0..Len(LanguagePool)] ==
            IF i = 0 THEN << >>
            ELSE IF i \in S THEN Append(pick[i - 1], LanguagePool[i]) ELSE pick[i - 1]
    IN  pick[Len(LanguagePool)]

\* what the query can return: up to MaxLangs distinct languages, in order
LanguageDirectories ==
    { PoolRows(S) : S \in { T \in SUBSET DOMAIN LanguagePool : Cardinality(T) <= MaxLangs } }

\* the "languages" endpoint of Aquifer; language 1 is English, the baseline
aq_langs ==
    << [ id |-> 1, code |-> "eng", englishDisplay |-> "English" ],
       [ id |-> 2, code |-> "spa", englishDisplay |-> "Spanish" ] >>

BaselineLanguageId == 1

\* an entry of availableLanguages
AvailableLanguage(languageId, resourceItemCount) ==
    [ languageId |-> languageId,
      displayName |-> IF languageId = 1 THEN "English" ELSE "Spanish",
      resourceItemCount |-> resourceItemCount ]

\* an answer of resources/collections/{code}
Collection(code, sliCategory, availableLanguages) ==
    [ code |-> code,
      sliCategory |-> sliCategory,
      availableLanguages |-> availableLanguages,
      holder |-> "BiblioNexus" ]

\* collections the loop accepts: with and without the baseline language, with
\* a baseline of zero items, without any language, with the misspelled label
AcceptedCollectionSamples ==
    { Collection("X", "Translation Guide",
                 << AvailableLanguage(1, Num(100)), AvailableLanguage(2, Num(89)) >>),
      Collection("X", "Translation Guide",
                 << AvailableLanguage(1, Num(0)), AvailableLanguage(2, Num(5)) >>),
      Collection("Y", "Translation Guide", << AvailableLanguage(2, Num(90)) >>),
      Collection("Y", "Foundational Bible Stores", << >>) }

\* collections whose sliCategory is absent, empty, or outside the canonical set
RejectedCollectionSamples ==
    { Collection("X", label, << AvailableLanguage(1, Num(100)) >>) :
        label \in { None, "", "Sermon Outlines" } }

CollectionSamples == AcceptedCollectionSamples \cup RejectedCollectionSamples

\* answers of the "bibles" endpoint: the last one is in a language the
\* "languages" endpoint does not list
BibleLists ==
    { << >>,
      << [ name |-> "BSB", languageId |-> 1, hasGreekAlignment |-> TRUE, holder |-> "BSB Publishing" ],
         [ name |-> "RVR", languageId |-> 2, hasGreekAlignment |-> FALSE, holder |-> None ],
         [ name |-> "KJV", languageId |-> 7, hasGreekAlignment |-> FALSE, holder |-> None ] >> }

\* repositories of the DCS search: subject and language may be absent
RepoSamples ==
    { [ full_name |-> "unfoldingWord/en_tn", subject |-> "TSV Translation Notes",
        language |-> "en", prod |-> TRUE ],
      [ full_name |-> "BSOJ/en_tn", subject |-> "TSV Translation Notes",
        language |-> "en", prod |-> FALSE ],
      [ full_name |-> "es-419_gl/es-419_tn", subject |-> "TSV Translation Notes",
        language |-> "es-419", prod |-> FALSE ],
      [ full_name |-> "test_org/xx_tn", subject |-> "TSV Translation Notes",
        language |-> None, prod |-> FALSE ],
      [ full_name |-> "unfoldingWord/el-x-koine_ugnt", subject |-> "Greek New Testament",
        language |-> "el-x-koine", prod |-> TRUE ],
      [ full_name |-> "someone/en_misc", subject |-> None,
        language |-> "en", prod |-> FALSE ],
      [ full_name |-> "someone/en_ulb", subject |-> "Bible",
        language |-> "en", prod |-> TRUE ] }

\* dict.get(key, default)
Get(value, default) == IF value = None THEN default ELSE value

\* language.split("-", 1)[0] on the language tags above
SplitBase(language) ==
    CASE language = "es-419" -> "es"
      [] language = "el-x-koine" -> "el"
      [] OTHER -> language

\* the truth value of a label in "if sli_category:"
Truthy(label) == label # None /\ label # ""

(***************************************************************************)
(* The state of a run.                                                     *)
(***************************************************************************)
VARIABLES
    pc,                 \* the statement the script is at
    error,              \* the exception that ended the run, or None
    slr_data,           \* the language directory
    aq_raw,             \* the collection_data fetched so far
    collections,        \* the list "collections" of get_resource_collections
    enriched,           \* the working frame of generate_aquifer_resource_data
    aquifer_data,       \* what generate_aquifer_resource_data returned
    dcs_raw,            \* the repositories fetch_dcs_data has looked at
    rows,               \* the list "rows" of fetch_dcs_data
    warnings,           \* the number of WARNING!!! lines printed
    combined_data,      \* the flat table of normalized records
    expanded_rows,      \* the matrix of the Excel report
    excel_written,      \* whether kr1_report.xlsx was written
    tx,                 \* the open transaction on kr1_progress_data
    kr1_progress_data,  \* the committed rows of the table
    statuses,           \* input of the merger when it is applied alone
    merged,             \* its result
    other,              \* a second run of the script, at its save_to_fred
    seen                \* the rows a reader of kr1_progress_data last got

vars == << pc, error, slr_data, aq_raw, collections, enriched, aquifer_data,
           dcs_raw, rows, warnings, combined_data, expanded_rows, excel_written,
           tx, kr1_progress_data, statuses, merged, other, seen >>

ingest_vars == << aq_raw, collections, enriched, aquifer_data, dcs_raw, rows,
                  warnings, combined_data >>
output_vars == << expanded_rows, excel_written, tx, kr1_progress_data >>
merger_vars == << statuses, merged >>
peer_vars == << other, seen >>

\* rows a previous run left in kr1_progress_data
PreviousRows ==
    << [ language_code |-> "eng", resource_name |-> None, resource_code |-> None,
         resource_owner |-> None, source |-> None,
         sli_category |-> "Study Notes", resource_status |-> None ] >>

NoTx == [ open |-> FALSE, deleted |-> FALSE, inserted |-> << >> ]

\* no second run: nothing of it is connected to the database
NoPeer == [ pc |-> "absent", error |-> None, tx |-> NoTx, inserts |-> << >> ]

Init ==
    /\ pc = "fetch_slr_data"
    /\ error = None
    /\ slr_data = << >>
    /\ aq_raw = << >>
    /\ collections = << >>
    /\ enriched = << >>
    /\ aquifer_data = << >>
    /\ dcs_raw = << >>
    /\ rows = << >>
    /\ warnings = 0
    /\ combined_data = << >>
    /\ expanded_rows = << >>
    /\ excel_written = FALSE
    /\ tx = NoTx
    /\ kr1_progress_data = PreviousRows
    /\ statuses = << >>
    /\ merged = None
    /\ other = NoPeer
    /\ seen = PreviousRows

\* an exception nobody catches ends the script
Raise(exception) ==
    /\ pc' = "aborted"
    /\ error' = exception

\* line 513
fetch_slr_data ==
    /\ pc = "fetch_slr_data"
    /\ \E directory \in LanguageDirectories : slr_data' = directory
    /\ pc' = "get_resource_collections"
    /\ UNCHANGED << error, ingest_vars, output_vars, merger_vars, peer_vars >>

(***************************************************************************)
(* Aquifer: get_resource_collections.                                      *)
(***************************************************************************)
Fetched == Len(aq_raw) + Len(dcs_raw)

\* the hack for the word misspelled in Aquifer
fix_misspelling_off(sli_category) == sli_category

fix_misspelling(sli_category) ==
    IF sli_category = "Foundational Bible Stores"
    THEN "Foundational Bible Stories"
    ELSE sli_category

\* the frame of one collection: a row per available language, or one row
\* without language when the collection lists none
languages_data(collection_data, sli_category) ==
    IF collection_data.availableLanguages # << >>
    THEN [ i \in DOMAIN collection_data.availableLanguages |->
             [ languageId |-> Num(collection_data.availableLanguages[i].languageId),
               displayName |-> collection_data.availableLanguages[i].displayName,
               resourceItemCount |-> collection_data.availableLanguages[i].resourceItemCount,
               code |-> collection_data.code,
               resource_type |-> sli_category,
               source |-> "aquifer",
               resource_owner |-> collection_data.holder ] ]
    ELSE << [ languageId |-> NaN,
              displayName |-> None,
              resourceItemCount |-> NaN,
              code |-> collection_data.code,
              resource_type |-> sli_category,
              source |-> "aquifer",
              resource_owner |-> collection_data.holder ] >>

\* one iteration of the loop over resource_codes
get_resource_collections ==
    /\ pc = "get_resource_collections"
    /\ Fetched < MaxFetch
    /\ \E collection_data \in CollectionSamples :
         LET sli_category == fix_misspelling(collection_data.sliCategory)
         IN  /\ aq_raw' = Append(aq_raw, collection_data)
             /\ IF ~Truthy(collection_data.sliCategory)
                THEN Raise("AttributeError") /\ UNCHANGED collections
                ELSE IF sli_category \notin all_sli_categories
                THEN Raise("ValueError") /\ UNCHANGED collections
                ELSE /\ collections' =
                          Append(collections, languages_data(collection_data, sli_category))
                     /\ UNCHANGED << pc, error >>
    /\ UNCHANGED << slr_data, enriched, aquifer_data, dcs_raw, rows, warnings,
                    combined_data, output_vars, merger_vars, peer_vars >>

(***************************************************************************)
(* Aquifer: generate_aquifer_resource_data.                                *)
(***************************************************************************)
\* the languageCode a left merge with aq_langs on languageId gives a row
merged_language_code(languageId) ==
    IF \E i \in DOMAIN aq_langs : Num(aq_langs[i].id) = languageId
    THEN aq_langs[CHOOSE i \in DOMAIN aq_langs : Num(aq_langs[i].id) = languageId].code
    ELSE None

\* base_counts: the item counts of the baseline language, rows without a
\* count dropped
base_counts(collections_df) ==
    LET baseline == SelectSeq(collections_df,
                        LAMBDA row : row.languageId = Num(BaselineLanguageId)
                                     /\ notnull(row.resourceItemCount))
    IN  [ i \in DOMAIN baseline |->
            [ resource_code |-> baseline[i].code,
              base_count |-> baseline[i].resourceItemCount ] ]

\* completion_pct of a row: computed only where base_count is known and > 0
completion_pct(resourceItemCount, base_count) ==
    IF notnull(base_count) /\ Val(base_count) > 0
    THEN Num(round3_pct(resourceItemCount, Val(base_count)))
    ELSE NaN

\* one row of the working set with each of the base counts of its resource
\* code (how="left": a row without any keeps a missing base_count)
merge_base_count(row, bases) ==
    LET count == IF isnull(row.resourceItemCount) THEN 0 ELSE Val(row.resourceItemCount)
        mine == SelectSeq(bases, LAMBDA b : b.resource_code = row.code)
        with(base_count) ==
            [ languageId |-> row.languageId,
              languageCode |-> merged_language_code(row.languageId),
              resource_code |-> row.code,
              resourceItemCount |-> count,
              base_count |-> base_count,
              completion_pct |-> completion_pct(count, base_count),
              resource_type |-> row.resource_type,
              resource_owner |-> row.resource_owner,
              displayName |-> row.displayName,
              source |-> row.source ]
    IN  IF mine = << >> THEN << with(NaN) >>
        ELSE [ i \in DOMAIN mine |-> with(mine[i].base_count) ]

\* the frame "enriched" before the status is assigned
enrich(collections_df) ==
    Flatten([ i \in DOMAIN collections_df |->
                merge_base_count(collections_df[i], base_counts(collections_df)) ])

\* apply() builds the column completion_pct from the values the lambda
\* returned: all None gives a column of None (dtype object), anything else a
\* float column in which None has become NaN
pct_is_object_column(frame) ==
    \A i \in DOMAIN frame : isnull(frame[i].completion_pct)

\* safe_get_status raises when it hands the None of an object column to
\* get_status, whose first comparison is None >= 90
status_raises(frame) ==
    /\ pct_is_object_column(frame)
    /\ \E i \in DOMAIN frame : notnull(frame[i].base_count)

safe_get_status(row) ==
    IF isnull(row.base_count) THEN "Unknown"
    ELSE get_status(row.completion_pct)

\* a row of final_df
final_row(row) ==
    [ languageCode |-> row.languageCode,
      resource_code |-> row.resource_code,
      resource_status |-> safe_get_status(row),
      resource_type |-> row.resource_type,
      resource_owner |-> row.resource_owner,
      displayName |-> row.displayName,
      source |-> row.source ]

\* get_bibles: the bibles whose language Aquifer lists (inner merge)
get_bibles(bibles) ==
    LET known == SelectSeq(bibles,
                     LAMBDA b : merged_language_code(Num(b.languageId)) # None)
    IN  [ i \in DOMAIN known |->
            [ languageCode |-> merged_language_code(Num(known[i].languageId)),
              resource_code |-> known[i].name,
              resource_status |-> "Satisfied",
              resource_type |-> IF known[i].hasGreekAlignment
                                THEN "Bible Translation Aligned to Gk/Heb"
                                ELSE "Bible Translation Source Text (audio preferred)",
              resource_owner |-> Get(known[i].holder, ""),
              displayName |-> known[i].name,
              source |-> "aquifer" ] ]

\* the rest of generate_aquifer_resource_data, once every collection is in.
\* An empty answer of "bibles" or of "resources/types" leaves a frame without
\* columns, and the first column looked up in it raises KeyError.
generate_aquifer_resource_data ==
    /\ pc = "get_resource_collections"
    /\ \E bibles \in BibleLists :
         LET frame == enrich(Flatten(collections))
         IN  IF bibles = << >> \/ collections = << >>
             THEN Raise("KeyError") /\ UNCHANGED << enriched, aquifer_data >>
             ELSE IF status_raises(frame)
             THEN Raise("TypeError") /\ enriched' = frame /\ UNCHANGED aquifer_data
             ELSE /\ enriched' = frame
                  /\ aquifer_data' =
                       [ i \in DOMAIN frame |-> final_row(frame[i]) ] \o get_bibles(bibles)
                  /\ pc' = "fetch_dcs_data"
                  /\ UNCHANGED error
    /\ UNCHANGED << slr_data, aq_raw, collections, dcs_raw, rows, warnings,
                    combined_data, output_vars, merger_vars, peer_vars >>

(***************************************************************************)
(* DCS: fetch_dcs_data.                                                    *)
(***************************************************************************)
get_dcs_resource_status(data) == IF data.prod THEN "Satisfied" ELSE "In Progress"

is_original_language(subject) ==
    subject = "Hebrew Old Testament" \/ subject = "Greek New Testament"

\* the row of one repository whose subject is mapped
dcs_row(obj, subject, sli_category) ==
    [ languageCode |-> IF is_original_language(subject) THEN "en"
                       ELSE SplitBase(Get(obj.language, "N/A")),
      resource_code |-> subject \o " (" \o Get(obj.full_name, "Unknown Name") \o ")",
      resource_status |-> get_dcs_resource_status(obj),
      resource_type |-> sli_category,
      resource_owner |-> "unfoldingWord",
      displayName |-> subject \o " (" \o Get(obj.full_name, "Unknown Name") \o ")",
      source |-> "dcs" ]

\* one iteration of the loop over data["data"]
fetch_dcs_data ==
    /\ pc = "fetch_dcs_data"
    /\ Fetched < MaxFetch
    /\ \E obj \in RepoSamples :
         LET subject == Get(obj.subject, "N/A")
         IN  /\ dcs_raw' = Append(dcs_raw, obj)
             /\ IF subject \notin DOMAIN dcs_aquifer_code_map
                THEN /\ warnings' = warnings + 1
                     /\ UNCHANGED << rows, pc, error >>
                ELSE IF dcs_aquifer_code_map[subject] \notin all_sli_categories
                THEN Raise("ValueError") /\ UNCHANGED << rows, warnings >>
                ELSE /\ rows' = Append(rows, dcs_row(obj, subject, dcs_aquifer_code_map[subject]))
                     /\ UNCHANGED << warnings, pc, error >>
    /\ UNCHANGED << slr_data, aq_raw, collections, enriched, aquifer_data,
                    combined_data, output_vars, merger_vars, peer_vars >>

\* fetch_dcs_data returns its frame and line 516 concatenates the two
concat_combined_data ==
    /\ pc = "fetch_dcs_data"
    /\ combined_data' = aquifer_data \o rows
    /\ pc' = "save_to_excel"
    /\ UNCHANGED << error, slr_data, aq_raw, collections, enriched, aquifer_data,
                    dcs_raw, rows, warnings, output_vars, merger_vars, peer_vars >>

(***************************************************************************)
(* The Excel report: save_to_excel.                                        *)
(***************************************************************************)
\* str.lower() on the two source headers
lower(source) ==
    CASE source = "Aquifer" -> "aquifer"
      [] source = "DCS" -> "dcs"
      [] OTHER -> source

\* Step 1 with the DCS column forgotten
expanded_headers_aquifer_only(headers) ==
    [ i \in 1..Len(headers) |-> << headers[i], "Aquifer" >> ]

\* Step 1: an Aquifer and a DCS column per resource type
expanded_headers(headers) ==
    [ i \in 1..(2 * Len(headers)) |->
        << headers[(i + 1) \div 2], IF i % 2 = 1 THEN "Aquifer" ELSE "DCS" >> ]

\* the resource codes the inputs above can produce, in Python's string order
CodeOrder ==
    << "BSB",
       "Greek New Testament (unfoldingWord/el-x-koine_ugnt)",
       "KJV",
       "RVR",
       "TSV Translation Notes (BSOJ/en_tn)",
       "TSV Translation Notes (es-419_gl/es-419_tn)",
       "TSV Translation Notes (test_org/xx_tn)",
       "TSV Translation Notes (unfoldingWord/en_tn)",
       "X",
       "Y" >>

\* f"---{resource_code}"
resource_line(resource_code) == "---" \o resource_code

\* the resource lines in the order of str: the prefix is the same in all
LineOrder == [ i \in DOMAIN CodeOrder |-> resource_line(CodeOrder[i]) ]

\* the place of a resource line in that order
LineRank(line) == CHOOSE i \in DOMAIN LineOrder : LineOrder[i] = line

RECURSIVE Insert(_, _)
Insert(line, sorted_lines) ==
    IF sorted_lines = << >> THEN << line >>
    ELSE IF LineRank(line) < LineRank(Head(sorted_lines))
    THEN << line >> \o sorted_lines
    ELSE << Head(sorted_lines) >> \o Insert(line, Tail(sorted_lines))

RECURSIVE sorted(_)
\* sorted(resource_lines)
sorted(lines) ==
    IF lines = << >> THEN << >>
    ELSE Insert(lines[Len(lines)], sorted(SubSeq(lines, 1, Len(lines) - 1)))

\* the selection of lines 407-412 with "and" between the two language tests
excel_matching_both_codes(aquifer_dcs_data, resource_type, source_key, language_code_2, language_code_3) ==
    SelectSeq(aquifer_dcs_data,
        LAMBDA r : /\ PdEq(r.resource_type, resource_type)
                   /\ PdEq(r.source, source_key)
                   /\ PdEq(r.languageCode, language_code_2)
                   /\ PdEq(r.languageCode, language_code_3))

\* the records of one cell (lines 407-412)
excel_matching(aquifer_dcs_data, resource_type, source_key, language_code_2, language_code_3) ==
    SelectSeq(aquifer_dcs_data,
        LAMBDA r : /\ PdEq(r.resource_type, resource_type)
                   /\ PdEq(r.source, source_key)
                   /\ \/ PdEq(r.languageCode, language_code_2)
                      \/ PdEq(r.languageCode, language_code_3))

\* the cell of one language under one column: cell_text is the status and,
\* when there are any, the sorted resource lines below it
excel_cell(aquifer_dcs_data, row, header) ==
    LET matching_resources ==
            excel_matching(aquifer_dcs_data, header[1], lower(header[2]),
                           row.language_code_2, row.language_code_3)
        resource_lines ==
            [ i \in DOMAIN matching_resources |->
                resource_line(matching_resources[i].resource_code) ]
    IN  [ resource_type |-> header[1],
          source |-> header[2],
          final_status |-> calculate_status_from_resources(matching_resources),
          resource_lines |-> sorted(resource_lines) ]

\* Step 2: a row per language, a cell per column
build_expanded_rows(sl_resource_data, aquifer_dcs_data, headers) ==
    [ i \in DOMAIN sl_resource_data |->
        [ language |-> sl_resource_data[i],
          cells |-> [ j \in DOMAIN expanded_headers(headers) |->
                        excel_cell(aquifer_dcs_data, sl_resource_data[i],
                                   expanded_headers(headers)[j]) ] ] ]

\* save_to_excel called before the Aquifer data is generated
save_to_excel_first ==
    /\ pc = "get_resource_collections"
    /\ ~excel_written
    /\ expanded_rows' = build_expanded_rows(slr_data, combined_data, sorted_slr_categories)
    /\ excel_written' = TRUE
    /\ UNCHANGED << pc, error, slr_data, ingest_vars, tx, kr1_progress_data,
                    merger_vars, peer_vars >>

\* line 518
save_to_excel ==
    /\ pc = "save_to_excel"
    /\ expanded_rows' = build_expanded_rows(slr_data, combined_data, sorted_slr_categories)
    /\ excel_written' = TRUE
    /\ pc' = "save_to_fred"
    /\ UNCHANGED << error, slr_data, ingest_vars, tx, kr1_progress_data, merger_vars, peer_vars >>

(***************************************************************************)
(* The database: save_to_fred.                                             *)
(***************************************************************************)
\* the selection of lines 346-350: the source is not part of it
fred_matching(aquifer_dcs_data, resource_type, language_code_2, language_code_3) ==
    SelectSeq(aquifer_dcs_data,
        LAMBDA r : /\ PdEq(r.resource_type, resource_type)
                   /\ \/ PdEq(r.languageCode, language_code_2)
                      \/ PdEq(r.languageCode, language_code_3))

\* the rows inserted for one resource type and one language, without the
\* row that stands for "no resource"
fred_rows_matching_only(aquifer_dcs_data, resource_type, row) ==
    LET matching_resources ==
            fred_matching(aquifer_dcs_data, resource_type,
                          row.language_code_2, row.language_code_3)
    IN  [ i \in DOMAIN matching_resources |->
             [ language_code |-> row.language_code_3,
               resource_name |-> matching_resources[i].displayName,
               resource_code |-> matching_resources[i].resource_code,
               resource_owner |-> matching_resources[i].resource_owner,
               source |-> matching_resources[i].source,
               sli_category |-> matching_resources[i].resource_type,
               resource_status |-> matching_resources[i].resource_status ] ]

\* the rows inserted for one resource type and one language
fred_rows(aquifer_dcs_data, resource_type, row) ==
    LET matching_resources ==
            fred_matching(aquifer_dcs_data, resource_type,
                          row.language_code_2, row.language_code_3)
    IN  IF matching_resources = << >>
        THEN << [ language_code |-> row.language_code_3,
                  resource_name |-> None,
                  resource_code |-> None,
                  resource_owner |-> None,
                  source |-> None,
                  sli_category |-> resource_type,
                  resource_status |-> None ] >>
        ELSE [ i \in DOMAIN matching_resources |->
                 [ language_code |-> row.language_code_3,
                   resource_name |-> matching_resources[i].displayName,
                   resource_code |-> matching_resources[i].resource_code,
                   resource_owner |-> matching_resources[i].resource_owner,
                   source |-> matching_resources[i].source,
                   sli_category |-> matching_resources[i].resource_type,
                   resource_status |-> matching_resources[i].resource_status ] ]

\* every INSERT of the two nested loops, in order
fred_inserts(sl_resource_data, aquifer_dcs_data, headers) ==
    Flatten([ h \in DOMAIN headers |->
                Flatten([ i \in DOMAIN sl_resource_data |->
                            fred_rows(aquifer_dcs_data, headers[h], sl_resource_data[i]) ]) ])

\* The connection is opened without autocommit, so the statements of a run
\* stay in its transaction until connection.commit().  deleted_tx is the
\* transaction after DELETE FROM kr1_progress_data.
deleted_tx == [ open |-> TRUE, deleted |-> TRUE, inserted |-> << >> ]

\* what connection.commit() makes of the table
committed(table, session) ==
    (IF session.deleted THEN << >> ELSE table) \o session.inserted

\* the DELETE on a connection that commits every statement at once
fred_delete_autocommit ==
    /\ pc = "save_to_fred"
    /\ ~other.tx.open
    /\ kr1_progress_data' = << >>
    /\ tx' = [ open |-> TRUE, deleted |-> FALSE, inserted |-> << >> ]
    /\ pc' = "fred_insert"
    /\ UNCHANGED << error, slr_data, ingest_vars, expanded_rows, excel_written,
                    merger_vars, peer_vars >>

\* connect, and DELETE FROM kr1_progress_data inside the transaction; the
\* statement waits while another transaction holds the rows of the table
fred_delete ==
    /\ pc = "save_to_fred"
    /\ ~other.tx.open
    /\ tx' = deleted_tx
    /\ pc' = "fred_insert"
    /\ UNCHANGED << error, slr_data, ingest_vars, expanded_rows, excel_written,
                    kr1_progress_data, merger_vars, peer_vars >>

\* the INSERTs of lines 342-378
fred_insert ==
    /\ pc = "fred_insert"
    /\ tx' = [ tx EXCEPT !.inserted =
                 fred_inserts(slr_data, combined_data, sorted_slr_categories) ]
    /\ pc' = "fred_commit"
    /\ UNCHANGED << error, slr_data, ingest_vars, expanded_rows, excel_written,
                    kr1_progress_data, merger_vars, peer_vars >>

\* connection.commit() and close
fred_commit ==
    /\ pc = "fred_commit"
    /\ kr1_progress_data' = committed(kr1_progress_data, tx)
    /\ tx' = NoTx
    /\ pc' = "done"
    /\ UNCHANGED << error, slr_data, ingest_vars, expanded_rows, excel_written,
                    merger_vars, peer_vars >>

(***************************************************************************)
(* The run of the script.                                                  *)
(***************************************************************************)
Next ==
    \/ fetch_slr_data
    \/ get_resource_collections
    \/ generate_aquifer_resource_data
    \/ fetch_dcs_data
    \/ concat_combined_data
    \/ save_to_excel
    \/ fred_delete
    \/ fred_insert
    \/ fred_commit

Spec == Init /\ [][Next]_vars

(***************************************************************************)
(* The Status Priority Merger applied alone, to every sequence of up to    *)
(* MaxStatuses statuses.                                                   *)
(***************************************************************************)
\* what the column resource_status can hold
StatusValues == { "Satisfied", "In Progress", "Unknown", "", None }

StatusSequences == UNION { [ 1..n -> StatusValues ] : n \in 0..MaxStatuses }

InitMerge ==
    /\ pc = "merge"
    /\ statuses \in StatusSequences
    /\ merged = None
    /\ error = None
    /\ slr_data = << >>
    /\ aq_raw = << >>
    /\ collections = << >>
    /\ enriched = << >>
    /\ aquifer_data = << >>
    /\ dcs_raw = << >>
    /\ rows = << >>
    /\ warnings = 0
    /\ combined_data = << >>
    /\ expanded_rows = << >>
    /\ excel_written = FALSE
    /\ tx = NoTx
    /\ kr1_progress_data = PreviousRows
    /\ other = NoPeer
    /\ seen = PreviousRows

\* line 414 on a frame whose column resource_status is "statuses"
apply_merger ==
    /\ pc = "merge"
    /\ merged' = calculate_status_from_resources(
                     [ i \in DOMAIN statuses |-> [ resource_status |-> statuses[i] ] ])
    /\ pc' = "merged"
    /\ UNCHANGED << error, slr_data, ingest_vars, output_vars, statuses, peer_vars >>

SpecMerge == InitMerge /\ [][apply_merger]_vars

(***************************************************************************)
(* The Baseline Completion Calculator applied alone: the collections are   *)
(* in, with or without a baseline count of every size, and                 *)
(* generate_aquifer_resource_data classifies them.                         *)
(***************************************************************************)
\* what the baseline language lists for collection X: nothing, an entry
\* without a count, or a count
BaselineEntryLists ==
    { << >> } \cup
    { << AvailableLanguage(1, count) >> :
        count \in { NaN, Num(-1), Num(0), Num(100), Num(200), Num(20009) } }

\* the count of the other language
CurrentCounts == { NaN, Num(0), Num(1), Num(89), Num(90), Num(180), Num(18008) }

\* collection X, alone or before a collection Y that has a baseline
ClassifyInputs ==
    { << Collection("X", "Translation Guide", base \o << AvailableLanguage(2, count) >>) >> \o others :
        base \in BaselineEntryLists,
        count \in CurrentCounts,
        others \in { << >>,
                     << Collection("Y", "Translation Guide",
                                   << AvailableLanguage(1, Num(100)) >>) >> } }

InitClassify ==
    /\ pc = "get_resource_collections"
    /\ aq_raw \in ClassifyInputs
    /\ collections =
         [ i \in DOMAIN aq_raw |->
             languages_data(aq_raw[i], fix_misspelling(aq_raw[i].sliCategory)) ]
    /\ error = None
    /\ slr_data = << >>
    /\ enriched = << >>
    /\ aquifer_data = << >>
    /\ dcs_raw = << >>
    /\ rows = << >>
    /\ warnings = 0
    /\ combined_data = << >>
    /\ expanded_rows = << >>
    /\ excel_written = FALSE
    /\ tx = NoTx
    /\ kr1_progress_data = PreviousRows
    /\ statuses = << >>
    /\ merged = None
    /\ other = NoPeer
    /\ seen = PreviousRows

SpecClassify == InitClassify /\ [][generate_aquifer_resource_data]_vars

(***************************************************************************)
(* save_to_fred next to a second run of the script and a reader of         *)
(* kr1_progress_data.  Both runs have built their flat table and written   *)
(* their report; each INSERT is a step of its own, any statement may fail  *)
(* and the reader may read between any two steps.                          *)
(***************************************************************************)
\* what the first run ingested from Aquifer
FredCollection ==
    Collection("X", "Translation Guide",
               << AvailableLanguage(1, Num(100)), AvailableLanguage(2, Num(89)) >>)

FredBibles == CHOOSE bibles \in BibleLists : bibles # << >>

\* what it looked at in DCS
FredRepoLists ==
    { << >>,
      << [ full_name |-> "unfoldingWord/en_tn", subject |-> "TSV Translation Notes",
           language |-> "en", prod |-> TRUE ] >> }

\* the flat table of the second run, which found nothing in DCS
PeerData ==
    LET frame == enrich(languages_data(FredCollection,
                                       fix_misspelling(FredCollection.sliCategory)))
    IN  [ i \in DOMAIN frame |-> final_row(frame[i]) ] \o get_bibles(FredBibles)

\* the second run about to call save_to_fred
PeerRuns ==
    { [ pc |-> "save_to_fred", error |-> None, tx |-> NoTx,
        inserts |-> fred_inserts(directory, PeerData, sorted_slr_categories) ] :
        directory \in LanguageDirectories }

InitFred ==
    /\ pc = "save_to_fred"
    /\ error = None
    /\ slr_data \in LanguageDirectories
    /\ aq_raw = << FredCollection >>
    /\ collections =
         << languages_data(FredCollection, fix_misspelling(FredCollection.sliCategory)) >>
    /\ enriched = enrich(Flatten(collections))
    /\ aquifer_data =
         [ i \in DOMAIN enriched |-> final_row(enriched[i]) ] \o get_bibles(FredBibles)
    /\ dcs_raw \in FredRepoLists
    /\ rows = [ i \in DOMAIN dcs_raw |->
                  dcs_row(dcs_raw[i], dcs_raw[i].subject,
                          dcs_aquifer_code_map[dcs_raw[i].subject]) ]
    /\ warnings = 0
    /\ combined_data = aquifer_data \o rows
    /\ expanded_rows = build_expanded_rows(slr_data, combined_data, sorted_slr_categories)
    /\ excel_written = TRUE
    /\ tx = NoTx
    /\ kr1_progress_data = PreviousRows
    /\ statuses = << >>
    /\ merged = None
    /\ other \in PeerRuns
    /\ seen = PreviousRows

\* one cursor.execute(INSERT_KR1_DATA, ...) of the two nested loops, or the
\* end of the loops
fred_insert_row ==
    /\ pc = "fred_insert"
    /\ LET inserts == fred_inserts(slr_data, combined_data, sorted_slr_categories)
       IN  IF Len(tx.inserted) < Len(inserts)
           THEN /\ tx' = [ tx EXCEPT !.inserted =
                             Append(@, inserts[Len(tx.inserted) + 1]) ]
                /\ UNCHANGED pc
           ELSE /\ pc' = "fred_commit"
                /\ UNCHANGED tx
    /\ UNCHANGED << error, slr_data, ingest_vars, expanded_rows, excel_written,
                    kr1_progress_data, merger_vars, peer_vars >>

\* connect, a statement or the commit raises (the server is gone, the wait
\* for a lock timed out, the run is the victim of a deadlock): "finally"
\* closes the connection and what was not committed is rolled back
fred_fail ==
    /\ pc \in { "save_to_fred", "fred_insert", "fred_commit" }
    /\ Raise("mariadb.Error")
    /\ tx' = NoTx
    /\ UNCHANGED << slr_data, ingest_vars, expanded_rows, excel_written,
                    kr1_progress_data, merger_vars, peer_vars >>

\* the same statements in the second run
peer_delete ==
    /\ other.pc = "save_to_fred"
    /\ ~tx.open
    /\ other' = [ other EXCEPT !.tx = deleted_tx, !.pc = "fred_insert" ]
    /\ UNCHANGED << pc, error, slr_data, ingest_vars, output_vars, merger_vars, seen >>

peer_insert_row ==
    /\ other.pc = "fred_insert"
    /\ IF Len(other.tx.inserted) < Len(other.inserts)
       THEN other' = [ other EXCEPT !.tx.inserted =
                         Append(@, other.inserts[Len(other.tx.inserted) + 1]) ]
       ELSE other' = [ other EXCEPT !.pc = "fred_commit" ]
    /\ UNCHANGED << pc, error, slr_data, ingest_vars, output_vars, merger_vars, seen >>

peer_commit ==
    /\ other.pc = "fred_commit"
    /\ kr1_progress_data' = committed(kr1_progress_data, other.tx)
    /\ other' = [ other EXCEPT !.tx = NoTx, !.pc = "done" ]
    /\ UNCHANGED << pc, error, slr_data, ingest_vars, expanded_rows, excel_written,
                    tx, merger_vars, seen >>

peer_fail ==
    /\ other.pc \in { "save_to_fred", "fred_insert", "fred_commit" }
    /\ other' = [ other EXCEPT !.tx = NoTx, !.pc = "aborted", !.error = "mariadb.Error" ]
    /\ UNCHANGED << pc, error, slr_data, ingest_vars, output_vars, merger_vars, seen >>

\* a reader selects the rows of the table: it gets what is committed
read_kr1_progress_data ==
    /\ seen' = kr1_progress_data
    /\ UNCHANGED << pc, error, slr_data, ingest_vars, output_vars, merger_vars, other >>

NextFred ==
    \/ fred_delete
    \/ fred_insert_row
    \/ fred_commit
    \/ fred_fail
    \/ peer_delete
    \/ peer_insert_row
    \/ peer_commit
    \/ peer_fail
    \/ read_kr1_progress_data

SpecFred == InitFred /\ [][NextFred]_vars

(***************************************************************************)
(* Properties.                                                             *)
(***************************************************************************)
\* the status of highest precedence among the statuses in S, under
\* Satisfied > In Progress > Unknown > Empty or absent
HighestPresent(S) ==
    IF "Satisfied" \in S THEN "Satisfied"
    ELSE IF "In Progress" \in S THEN "In Progress"
    ELSE IF "Unknown" \in S THEN "Unknown"
    ELSE ""

\* C2: for every finite collection of record statuses, in any order and with
\* repetitions, calculate_status_from_resources returns the status of highest
\* precedence present (Satisfied > In Progress > Unknown > Empty or absent);
\* the empty collection gives Empty; the result depends only on which
\* statuses are present, not on their order.
C2_MergeHighestPrecedence ==
    pc = "merged" => merged = HighestPresent(Range(statuses))

\* C2 witness: three records, the highest status neither first nor alone
C2_Witness ==
    /\ pc = "merged"
    /\ statuses = << "Unknown", "In Progress", "Satisfied" >>
    /\ merged = "Satisfied"

\* the rows of the working frame whose baseline count is absent or <= 0
NoPositiveBaseline(row) == isnull(row.base_count) \/ Val(row.base_count) <= 0

\* C3: every Aquifer collection record whose baseline count is absent, or
\* present but <= 0, gets the status Unknown whatever its own item count, and
\* a zero or negative baseline never raises an error.
C3_UnknownWithoutPositiveBaseline ==
    /\ error # "TypeError"
    /\ pc = "fetch_dcs_data" =>
         \A i \in DOMAIN enriched :
             NoPositiveBaseline(enriched[i]) => aquifer_data[i].resource_status = "Unknown"

\* where 100 n / d lies, in thousandths, relative to k + 1/2 (n >= 0, d > 0)
AboveHalf(n, d, k) == (n * 100000 - k * d) > d - (n * 100000 - k * d)
BelowHalf(n, d, k) == (n * 100000 - k * d) < d - (n * 100000 - k * d)

\* C4 as stated: with a baseline count > 0 and the exact ratio
\* current / baseline * 100, the status is Satisfied when ratio >= 90,
\* In Progress when 0 < ratio < 90 and Empty when ratio = 0.
C4_ExactRatioClassification ==
    pc = "fetch_dcs_data" =>
        \A i \in DOMAIN enriched :
            LET row == enriched[i]
                current == row.resourceItemCount
                baseline == Val(row.base_count)
            IN  (notnull(row.base_count) /\ baseline > 0) =>
                    aquifer_data[i].resource_status =
                        IF current * 100 >= 90 * baseline THEN "Satisfied"
                        ELSE IF current > 0 THEN "In Progress"
                        ELSE ""

\* C4 amended: with a baseline count > 0, the status follows the ratio
\* rounded to 3 decimal places: Satisfied when the ratio is above 89.9995
\* (it rounds to 90 or more), Empty when it is below 0.0005 (it rounds to 0),
\* In Progress when it lies strictly between the two.
C4_RoundedRatioClassification ==
    pc = "fetch_dcs_data" =>
        \A i \in DOMAIN enriched :
            LET row == enriched[i]
                current == row.resourceItemCount
                baseline == Val(row.base_count)
                status == aquifer_data[i].resource_status
            IN  (notnull(row.base_count) /\ baseline > 0) =>
                    /\ AboveHalf(current, baseline, 89999) => status = "Satisfied"
                    /\ (BelowHalf(current, baseline, 89999) /\ AboveHalf(current, baseline, 0))
                           => status = "In Progress"
                    /\ BelowHalf(current, baseline, 0) => status = ""

\* C4 witness: 90 of 100 is Satisfied, 89.9995... of 100 too, in one frame
C4_Witness ==
    /\ pc = "fetch_dcs_data"
    /\ \E i \in DOMAIN enriched :
          /\ enriched[i].base_count = Num(20009)
          /\ enriched[i].resourceItemCount = 18008
          /\ aquifer_data[i].resource_status = "Satisfied"
    /\ \E i \in DOMAIN enriched :
          /\ enriched[i].base_count = Num(100)
          /\ enriched[i].resourceItemCount = 100
          /\ aquifer_data[i].resource_status = "Satisfied"

\* the two source columns of the report and the tag each stands for
SourceTag == [ column \in { "Aquifer", "DCS" } |->
                 IF column = "Aquifer" THEN "aquifer" ELSE "dcs" ]

\* the places of the cells of the matrix: << row, column >>
CellPlaces ==
    UNION { { << i, j >> : j \in DOMAIN expanded_rows[i].cells } : i \in DOMAIN expanded_rows }

CellAt(p) == expanded_rows[p[1]].cells[p[2]]

\* the matching rule: same category, same source tag, and a language code
\* that is present and equals the 2-letter or the 3-letter code
Contributes(record, language, category, tag) ==
    /\ record.resource_type = category
    /\ record.source = tag
    /\ record.languageCode # None
    /\ \/ record.languageCode = language.language_code_2
       \/ record.languageCode = language.language_code_3

\* the records of the flat table that contribute to a triple
Contributors(language, category, tag) ==
    { k \in DOMAIN combined_data : Contributes(combined_data[k], language, category, tag) }

\* save_to_excel has just returned the matrix
MatrixBuilt == pc = "save_to_fred"

\* the (language, category, source) triple a cell stands for
TripleOf(p) == << expanded_rows[p[1]].language, CellAt(p).resource_type, CellAt(p).source >>

\* C1: the matrix of save_to_excel holds exactly L*C*2 cells, one for each
\* (language, category, source) triple and no two for the same triple; a
\* triple without a matching record has a cell with the status Empty and no
\* resource codes.
C1_MatrixComplete ==
    MatrixBuilt =>
        /\ SeqSum([ i \in DOMAIN expanded_rows |-> Len(expanded_rows[i].cells) ])
             = Len(slr_data) * Cardinality(all_sli_categories) * 2
        /\ { TripleOf(p) : p \in CellPlaces } =
             Range(slr_data) \X all_sli_categories \X DOMAIN SourceTag
        /\ Cardinality({ TripleOf(p) : p \in CellPlaces }) = Cardinality(CellPlaces)
        /\ \A p \in CellPlaces :
              Contributors(TripleOf(p)[1], TripleOf(p)[2], SourceTag[TripleOf(p)[3]]) = { } =>
                  /\ CellAt(p).final_status = ""
                  /\ CellAt(p).resource_lines = << >>

\* C1 witness: a matrix of two languages with an empty and a filled cell
C1_Witness ==
    /\ MatrixBuilt
    /\ Len(slr_data) = 2
    /\ \E p \in CellPlaces : CellAt(p).resource_lines = << >>
    /\ \E p \in CellPlaces : CellAt(p).resource_lines # << >>

\* how often x occurs in the sequence s
Occurrences(s, x) == Cardinality({ i \in DOMAIN s : s[i] = x })

\* C5: a record contributes to the cell (language, category, source) if and
\* only if it has the cell's category and source tag and its language code
\* equals the 2-letter or the 3-letter code of the language; a record
\* without a language code contributes to no cell.  The cell lists the code
\* of every contributing record, once per record, and nothing else.
C5_CellHoldsItsContributors ==
    MatrixBuilt =>
        \A p \in CellPlaces :
            LET cell == CellAt(p)
                mine == Contributors(expanded_rows[p[1]].language, cell.resource_type,
                                     SourceTag[cell.source])
            IN  /\ Len(cell.resource_lines) = Cardinality(mine)
                /\ \A n \in DOMAIN CodeOrder :
                      Occurrences(cell.resource_lines, LineOrder[n]) =
                          Cardinality({ k \in mine : combined_data[k].resource_code = CodeOrder[n] })

\* C5 witness: one language receives a record through its 2-letter code and
\* another through its 3-letter code, and a record without language code is
\* in the table
C5_Witness ==
    /\ MatrixBuilt
    /\ \E language \in Range(slr_data) :
          /\ \E k \in DOMAIN combined_data :
                combined_data[k].languageCode = language.language_code_2
          /\ \E k \in DOMAIN combined_data :
                combined_data[k].languageCode = language.language_code_3
    /\ \E k \in DOMAIN combined_data : combined_data[k].languageCode = None
    /\ \E p \in CellPlaces : CellAt(p).source = "DCS" /\ CellAt(p).resource_lines # << >>
    /\ \E p \in CellPlaces : CellAt(p).source = "Aquifer" /\ CellAt(p).resource_lines # << >>

\* C6: in every cell the resource codes are in ascending order and none
\* appears twice, and the status of the cell is the merge of the statuses of
\* its matching records.
C6_SortedDeduplicated ==
    MatrixBuilt =>
        \A p \in CellPlaces :
            LET cell == CellAt(p)
                mine == Contributors(expanded_rows[p[1]].language, cell.resource_type,
                                     SourceTag[cell.source])
            IN  /\ \A a, b \in DOMAIN cell.resource_lines :
                      a < b => LineRank(cell.resource_lines[a]) < LineRank(cell.resource_lines[b])
                /\ cell.final_status =
                      HighestPresent({ combined_data[k].resource_status : k \in mine })

\* C7: a raw record without a category label is fatal in both catalogs: once
\* a collection without sliCategory or a repository without subject has been
\* fetched, the run has aborted.
C7_MissingLabelFatal ==
    ( \/ \E i \in DOMAIN aq_raw : ~Truthy(aq_raw[i].sliCategory)
      \/ \E i \in DOMAIN dcs_raw : ~Truthy(dcs_raw[i].subject) )
    => pc = "aborted"

\* the canonical category an Aquifer label stands for
CanonicalOf(label) ==
    IF label = "Foundational Bible Stores" THEN "Foundational Bible Stories" ELSE label

\* the repositories looked at so far whose subject is in the DCS table
MappedRepos == SelectSeq(dcs_raw, LAMBDA obj : obj.subject \in DOMAIN dcs_aquifer_code_map)

\* C8: a non-empty Aquifer label is accepted as its canonical category when,
\* the misspelling rewritten, it is in the closed set, and aborts ingestion
\* otherwise; a DCS subject of the table is mapped to the table's category,
\* any other drops that one repository with a warning and the rest is still
\* ingested; every record carries a category of the closed set, and the
\* columns of the matrix are those of the closed set.
C8_ClosedTaxonomy ==
    /\ \A i \in DOMAIN aq_raw :
          Truthy(aq_raw[i].sliCategory) =>
              IF CanonicalOf(aq_raw[i].sliCategory) \in all_sli_categories
              THEN /\ i \in DOMAIN collections
                   /\ collections[i] # << >>
                   /\ \A n \in DOMAIN collections[i] :
                         collections[i][n].resource_type = CanonicalOf(aq_raw[i].sliCategory)
              ELSE /\ pc = "aborted" /\ error = "ValueError"
                   /\ i = Len(aq_raw)
                   /\ Len(collections) = i - 1
    /\ Len(rows) = Len(MappedRepos)
    /\ warnings = Len(dcs_raw) - Len(MappedRepos)
    /\ dcs_raw # << >> => pc # "aborted"
    /\ \A n \in DOMAIN rows :
          rows[n].resource_type = dcs_aquifer_code_map[MappedRepos[n].subject]
    /\ \A r \in Range(aquifer_data) \cup Range(rows) \cup Range(combined_data) :
          r.resource_type \in all_sli_categories
    /\ MatrixBuilt =>
          { CellAt(p).resource_type : p \in CellPlaces } \subseteq all_sli_categories

\* C8 witness: a run that accepted the misspelled label, dropped a repository
\* whose subject is not in the table and ingested the one after it
C8_Witness ==
    /\ pc = "done"
    /\ \E i \in DOMAIN aq_raw : aq_raw[i].sliCategory = "Foundational Bible Stores"
    /\ \E r \in Range(combined_data) : r.resource_type = "Foundational Bible Stories"
    /\ Len(dcs_raw) = 2
    /\ dcs_raw[1].subject = "Bible"
    /\ Len(rows) = 1
    /\ warnings = 1

\* C9: the flat table of normalized records holds no record whose language
\* code is absent or a placeholder.
C9_NoRecordWithoutLanguage ==
    \A r \in Range(aquifer_data) \cup Range(rows) \cup Range(combined_data) :
        r.languageCode \notin { None, "N/A" }

\* the committed rows for a language and a category
RowsOf(language, category) ==
    SelectSeq(kr1_progress_data,
        LAMBDA row : row.language_code = language.language_code_3
                     /\ row.sli_category = category)

\* C10 as stated: after save_to_fred, every (language, category, source)
\* triple has a persisted row carrying the 3-letter code, the category and
\* the source.
C10_RowPerTriple ==
    pc = "done" =>
        \A language \in Range(slr_data), category \in all_sli_categories,
           tag \in { "aquifer", "dcs" } :
            \E n \in DOMAIN RowsOf(language, category) :
                RowsOf(language, category)[n].source = tag

\* C10 amended: after save_to_fred, every (language, category) pair has
\* persisted rows carrying the 3-letter code and the category: one row with
\* empty name, code, owner, source and status when no record of either
\* source matches the pair, and otherwise one row per matching record with
\* that record's fields; the table holds nothing else.
C10_RowsPerLanguageCategory ==
    pc = "done" =>
        /\ \A language \in Range(slr_data), category \in all_sli_categories :
             LET mine == Contributors(language, category, "aquifer") \cup
                         Contributors(language, category, "dcs")
                 stored == RowsOf(language, category)
             IN  IF mine = { }
                 THEN /\ Len(stored) = 1
                      /\ stored[1].resource_name = None
                      /\ stored[1].resource_code = None
                      /\ stored[1].resource_owner = None
                      /\ stored[1].source = None
                      /\ stored[1].resource_status = None
                 ELSE /\ Len(stored) = Cardinality(mine)
                      /\ \A k \in mine :
                            \E n \in DOMAIN stored :
                                /\ stored[n].resource_code = combined_data[k].resource_code
                                /\ stored[n].source = combined_data[k].source
                                /\ stored[n].resource_status = combined_data[k].resource_status
                                /\ stored[n].resource_owner = combined_data[k].resource_owner
        /\ \A n \in DOMAIN kr1_progress_data :
              \E language \in Range(slr_data) :
                  kr1_progress_data[n].language_code = language.language_code_3

\* C10 witness: a committed table with a pair nothing matches, a pair only
\* Aquifer matches and a pair only DCS matches
C10_Witness ==
    /\ pc = "done"
    /\ \E language \in Range(slr_data), category \in all_sli_categories :
          /\ Contributors(language, category, "aquifer") = { }
          /\ Contributors(language, category, "dcs") = { }
    /\ \E language \in Range(slr_data), category \in all_sli_categories :
          /\ Contributors(language, category, "aquifer") # { }
          /\ Contributors(language, category, "dcs") = { }
    /\ \E language \in Range(slr_data), category \in all_sli_categories :
          /\ Contributors(language, category, "aquifer") = { }
          /\ Contributors(language, category, "dcs") # { }


\* the rows this run inserts, in the order of its INSERTs
OwnInserts == fred_inserts(slr_data, combined_data, sorted_slr_categories)

\* "table" is what a run of the script left at its commit, or what was there
\* before both runs
WholeContents(table) ==
    \/ table = PreviousRows
    \/ pc = "done" /\ table = OwnInserts
    \/ other.pc = "done" /\ table = other.inserts

\* C11: save_to_fred replaces the rows of kr1_progress_data at its commit
\* and not before: with a second run and a reader interleaved in any way,
\* the committed table and what the reader got are always the rows from
\* before the runs or all the rows of one run that has committed, never an
\* emptied or partly filled table; while no run has committed, and so after
\* a run has failed before its commit, the table holds its previous rows;
\* once a run has committed it holds the rows of a committed run.
C11_AtomicReplacement ==
    /\ WholeContents(kr1_progress_data)
    /\ WholeContents(seen)
    /\ (pc # "done" /\ other.pc # "done") => kr1_progress_data = PreviousRows
    /\ (pc = "done" /\ other.pc # "done") => kr1_progress_data = OwnInserts
    /\ (pc # "done" /\ other.pc = "done") => kr1_progress_data = other.inserts

\* the second run has committed its rows and the reader has read them; the
\* first run has since deleted and inserted some of its own rows, which are
\* not committed, and the table still holds all the rows of the second run
C11_Witness ==
    /\ pc = "fred_insert"
    /\ tx.deleted
    /\ 0 < Len(tx.inserted) /\ Len(tx.inserted) < Len(OwnInserts)
    /\ other.pc = "done"
    /\ other.inserts # << >>
    /\ seen = other.inserts
    /\ kr1_progress_data = other.inserts


\* the script is at or past save_to_fred
ExcelDone == pc \in { "save_to_fred", "fred_insert", "fred_commit", "done" }

\* the database has been written to, in a transaction or for good
FredTouched == tx.open \/ kr1_progress_data # PreviousRows

\* the exceptions of the taxonomy: a label that is missing, a label outside
\* the canonical set
TaxonomyErrors == { "AttributeError", "ValueError" }

\* C12: in every run the report is written only once the language
\* directory, the Aquifer data and the DCS data are in and concatenated, and
\* the database is written to only after the report; after either, nothing
\* ingested changes any more.  So a run that a missing label or an Aquifer
\* label outside the canonical set has aborted ends with no report written
\* and with kr1_progress_data holding its previous rows.
C12_IngestThenExcelThenFred ==
    /\ [](/\ excel_written => ExcelDone /\ combined_data = aquifer_data \o rows
          /\ FredTouched => excel_written
          /\ error \in TaxonomyErrors =>
                /\ pc = "aborted"
                /\ ~excel_written /\ expanded_rows = << >>
                /\ tx = NoTx /\ kr1_progress_data = PreviousRows)
    /\ [][(excel_written \/ FredTouched) => UNCHANGED << slr_data, ingest_vars >>]_vars

\* a collection has a label outside the canonical set after another was
\* accepted: the run is over and has written nothing
C12_Witness ==
    /\ pc = "aborted"
    /\ error = "ValueError"
    /\ Len(collections) >= 1
    /\ slr_data # << >>
    /\ ~excel_written
    /\ kr1_progress_data = PreviousRows

=============================================================================
